---------------------------- MODULE Spec2Model ----------------------------
(***************************************************************************)
(* Task-Edge-Offloading: the server registry (server.py), its latency      *)
(* probing and selection policies, and the dispatch engine with its        *)
(* throughput gate (engine.py), as a state machine.                        *)
(*                                                                         *)
(* Time is counted in clock ticks of one second.                            *)
(* A Server object is a record [serverName, serverIP, availability]; the   *)
(* registry ServerList.serverList is a sequence of such records.           *)
(***************************************************************************)
EXTENDS Integers, Sequences, FiniteSets, TLC

VARIABLES
    serverList,       \* ServerList.serverList of the engine's registry
    req_time_lst,     \* DecisionEngine.req_time_lst
    engine,           \* the engine's construction-time fields
    tasks,            \* every TaskInfo handed to the pool, with its progress
    cal,              \* a cal_throughput call made by a route handler
    now,              \* the clock read by time.time()
    inflight,         \* a refresh and a submit_task running in two handler threads
    last              \* what the last completed call returned

vars == <<serverList, req_time_lst, engine, tasks, cal, now, inflight, last>>

-----------------------------------------------------------------------------
(* Bounds of the model *)

MaxLog == 2
MaxTime == 1
MaxTasks == 2
MaxWindow == 4
MaxStamp == 3
Submissions == 30

(* Program constants *)

DEFAULT_THROUGHPUT_PERIOD == 1
EXPECTED_THROUGHPUT == 25
MinPingDefault == 3000

\* the clock ticks once per second
Period == DEFAULT_THROUGHPUT_PERIOD

Localhost == "127.0.0.1"
Remote1 == "10.0.0.2"
Remote2 == "10.0.0.3"
\* the addresses the registry operations are called with
RegistryIPs == {Localhost, Remote1}

-----------------------------------------------------------------------------
(* Sequences helpers *)

Range(s) == {s[i] : i \in DOMAIN s}

\* s without its element at position i
RemoveAt(s, i) == [j \in 1..(Len(s) - 1) |-> IF j < i THEN s[j] ELSE s[j + 1]]

\* the elements of s that satisfy keep, in order; keep is a sequence of BOOLEAN
RECURSIVE FilterBy(_, _)
FilterBy(s, keep) ==
    IF s = <<>> THEN <<>>
    ELSE (IF Head(keep) THEN <<Head(s)>> ELSE <<>>) \o FilterBy(Tail(s), Tail(keep))

-----------------------------------------------------------------------------
(* server.py: Server, ServerInfo, Server.test_availability *)

ServerInfo(available, delay, timestamp) ==
    [available |-> available, delay |-> delay, timestamp |-> timestamp]

\* a Python number: an int or a float
PyInt(n) == [float |-> FALSE, val |-> n]
PyFloat(n) == [float |-> TRUE, val |-> n]

Server(name, ip) == [serverName |-> name, serverIP |-> ip, availability |-> <<>>]

\* Server.__eq__: two servers are equal when their serverIP is
ServerEq(a, b) == a.serverIP = b.serverIP

\* what ping3.ping(ip, unit="ms") returns: False, None or a float delay
PingFalse == [kind |-> "False", ms |-> 0]
PingNone == [kind |-> "None", ms |-> 0]
PingDelay(d) == [kind |-> "float", ms |-> d]
Delays == {10, 20}
PingResponses == {PingFalse, PingNone} \cup {PingDelay(d) : d \in Delays}

\* Python's "not response"
Falsy(response) == response.kind \in {"False", "None"} \/ response.ms = 0

\* the value test_availability returns
TestResult(response) == ~Falsy(response)

\* the server after test_availability got `response` from ping at time t
test_availability(server, response, t) ==
    IF Falsy(response)
    THEN [server EXCEPT !.availability = Append(@, ServerInfo(FALSE, PyInt(0), t))]
    ELSE [server EXCEPT !.availability =
              Append(@, ServerInfo(TRUE, PyFloat(response.ms), t))]

-----------------------------------------------------------------------------
(* server.py: ServerList *)

\* config.py: the server_list of a configuration class, as the ordered
\* <<name, address>> items of the dict: no server, Config, FlaskTestConfig,
\* SmartContractConfig, and a map that names one address twice
ConfigMaps ==
    { <<>>,
      << <<"LocalDevice", Localhost>>, <<"vagrant-ubuntu", Remote1>> >>,
      << <<"LocalDevice", Localhost>>, <<"vagrant-ubuntu1", Remote1>>,
         <<"vagrant-ubuntu2", Remote2>> >>,
      << <<"ubuntu2004", Remote1>>, <<"manjaro", Remote2>> >>,
      << <<"LocalDevice", Localhost>>, <<"Loopback", Localhost>> >> }

read_server_list_from_config(map) ==
    [i \in 1..Len(map) |-> Server(map[i][1], map[i][2])]

\* a deduplication that keeps the addresses held once
OnlyOfItsAddress(servers, i) ==
    \A j \in DOMAIN servers : ServerEq(servers[j], servers[i]) => j = i

\* list(set(servers)): one entry per address, the first one inserted, in any order
FirstOfItsAddress(servers, i) ==
    \A j \in 1..(i - 1) : ~ServerEq(servers[j], servers[i])

Dedup(servers) ==
    FilterBy(servers, [i \in 1..Len(servers) |-> FirstOfItsAddress(servers, i)])

Orders(s) ==
    LET n == Len(s)
        perms == {p \in [1..n -> 1..n] : \A i, j \in 1..n : p[i] = p[j] => i = j}
    IN  {[i \in 1..n |-> s[p[i]]] : p \in perms}

ListOfSet(servers) == Orders(Dedup(servers))

contains_ip(servers, ip) == \E i \in DOMAIN servers : ServerEq(servers[i], Server("temp", ip))

\* list.remove: the index of the first equal entry (0 when there is none)
FirstIndex(servers, ip) ==
    IF contains_ip(servers, ip)
    THEN CHOOSE i \in DOMAIN servers :
             /\ servers[i].serverIP = ip
             /\ \A j \in 1..(i - 1) : servers[j].serverIP # ip
    ELSE 0

remove_ip(servers, ip) == RemoveAt(servers, FirstIndex(servers, ip))

\* every server of the list probed once; resp[i] is what ping answers for entry i
ProbeAll(servers, resp, t) ==
    [i \in DOMAIN servers |-> test_availability(servers[i], resp[i], t)]

\* the scan of select_min_ping_server over probed servers: the index chosen
\* (0 for None) after the entries 1..k have been looked at
\* the scan taking a delay that equals the smallest so far
is_faster_or_equal(this_delay, min_ping) == this_delay.float /\ this_delay.val <= min_ping

\* isinstance(this_delay, float) and this_delay < min_ping
is_faster(this_delay, min_ping) == this_delay.float /\ this_delay.val < min_ping

RECURSIVE MinPingScan(_, _)
MinPingScan(servers, k) ==
    IF k = 0 THEN [min_ping |-> MinPingDefault, idx |-> 0]
    ELSE LET before == MinPingScan(servers, k - 1)
             this_delay == servers[k].availability[1].delay
         IN  IF is_faster(this_delay, before.min_ping)
             THEN [min_ping |-> this_delay.val, idx |-> k]
             ELSE before

select_min_ping_index(servers) == MinPingScan(servers, Len(servers)).idx

\* what a policy does on `servers` at time t: every outcome it can have, as
\* [servers: the list after the call, kind: "server" | "None" | "raise", idx: the
\* position of the returned server].  select_min_ping_server builds
\* ThreadPoolExecutor(max_workers=len(serverList)), which raises for 0 workers;
\* random.choice raises on an empty list.
select_random_server_or_none(servers) ==
    {[servers |-> servers, kind |-> "None", idx |-> 0]}
    \cup {[servers |-> servers, kind |-> "server", idx |-> i] : i \in DOMAIN servers}

select_random_server(servers) ==
    IF servers = <<>>
    THEN {[servers |-> servers, kind |-> "raise", idx |-> 0]}
    ELSE {[servers |-> servers, kind |-> "server", idx |-> i] : i \in DOMAIN servers}

select_min_ping_server(servers, t) ==
    IF servers = <<>>
    THEN {[servers |-> servers, kind |-> "raise", idx |-> 0]}
    ELSE {LET probed == ProbeAll(servers, resp, t)
              idx == select_min_ping_index(probed)
          IN  [servers |-> probed,
               kind |-> IF idx = 0 THEN "None" ELSE "server",
               idx |-> idx] : resp \in [DOMAIN servers -> PingResponses]}

\* map_decision_func().get(func) called: a name the dict does not hold gives
\* None, and calling None raises TypeError (kind "unresolved")
Policy(func, servers, t) ==
    IF func = "select_random_server" THEN select_random_server(servers)
    ELSE IF func = "select_min_ping_server" THEN select_min_ping_server(servers, t)
    ELSE {[servers |-> servers, kind |-> "unresolved", idx |-> 0]}

\* a probe appends to a log: the model stops probing a server whose log is full
LogsHaveRoom(servers) == \A i \in DOMAIN servers : Len(servers[i].availability) < MaxLog

\* the comprehension of update_server_list_using_list kept as it was found
still_available_all(old, respOld) == old

\* [server for server in self.serverList if server.test_availability()]
still_available(old, respOld) ==
    FilterBy(old, [i \in DOMAIN old |-> TestResult(respOld[i])])

\* update_server_list_using_list: every list it can leave behind when ping
\* answers respOld[i] for the i-th registered server and respNew[i] for lst[i]
update_server_list_using_list(servers, lst, server_name, t, respOld, respNew) ==
    LET old == ProbeAll(servers, respOld, t)
        kept == still_available(old, respOld)
        new == [i \in DOMAIN lst |->
                    test_availability(Server(server_name, lst[i]), respNew[i], t)]
        added == FilterBy(new, [i \in DOMAIN new |-> TestResult(respNew[i])])
    IN  ListOfSet(kept \o added)

-----------------------------------------------------------------------------
(* What a completed call returned.  window and at are the throughput window  *)
(* and the clock the call started from (engine calls only).                  *)

NoServer == [serverName |-> "", serverIP |-> ""]

\* no refresh came before
NoRefresh == [refreshed |-> FALSE, lst |-> <<>>, allok |-> FALSE]

\* before, ip and queued are the registry, the address argument and the number of
\* dispatch records when the call started, task and port its other arguments; members, lst, passed, allok and prior
\* describe a refresh: the addresses registered before it, its list, the
\* addresses that passed a probe, whether every probe passed, and the refresh
\* that came directly before it
Result(op, kind, server, idx, via, val, window, at) ==
    [op |-> op, kind |-> kind, server |-> server, idx |-> idx, via |-> via,
     val |-> val, window |-> window, at |-> at,
     before |-> <<>>, ip |-> "", queued |-> 0, task |-> "", port |-> 0,
     members |-> {}, lst |-> <<>>, passed |-> {}, allok |-> FALSE,
     prior |-> NoRefresh]

Plain(op, kind) == Result(op, kind, NoServer, 0, "", 0, <<>>, 0)

Ident(server) == [serverName |-> server.serverName, serverIP |-> server.serverIP]

-----------------------------------------------------------------------------
(* Registry operations on the shared registry *)

RefreshLists == { <<>>, <<Remote1, Remote1>>, <<Localhost, Remote1>> }

Addresses(servers) == {servers[i].serverIP : i \in DOMAIN servers}

\* update_server_list_using_list on the shared registry, ping answering from
\* `responses`, with what the refresh found and did kept beside its return
UpdateUsingWith(lst, server_name, op, responses) ==
    /\ LogsHaveRoom(serverList)
    /\ \E respOld \in [DOMAIN serverList -> responses],
          respNew \in [DOMAIN lst -> responses] :
          /\ serverList' \in update_server_list_using_list(serverList, lst, server_name,
                                                          now, respOld, respNew)
          /\ last' = [Plain(op, "ok") EXCEPT
                         !.members = Addresses(serverList),
                         !.lst = lst,
                         !.passed = {serverList[i].serverIP :
                                        i \in {j \in DOMAIN serverList : TestResult(respOld[j])}}
                                    \cup {lst[i] : i \in {j \in DOMAIN lst : TestResult(respNew[j])}},
                         !.allok = /\ \A i \in DOMAIN serverList : TestResult(respOld[i])
                                   /\ \A i \in DOMAIN lst : TestResult(respNew[i]),
                         !.prior = IF last.op = op
                                   THEN [refreshed |-> TRUE, lst |-> last.lst,
                                         allok |-> last.allok]
                                   ELSE NoRefresh]
    /\ UNCHANGED <<req_time_lst, engine, tasks, cal, now, inflight>>

\* update_server_list_using_list on the shared registry; it returns None
UpdateUsing(lst, server_name, op) ==
    /\ LogsHaveRoom(serverList)
    /\ \E respOld \in [DOMAIN serverList -> PingResponses],
          respNew \in [DOMAIN lst -> PingResponses] :
          serverList' \in update_server_list_using_list(serverList, lst, server_name,
                                                       now, respOld, respNew)
    /\ last' = Plain(op, "ok")
    /\ UNCHANGED <<req_time_lst, engine, tasks, cal, now, inflight>>

Refresh == \E lst \in RefreshLists : UpdateUsing(lst, "AddedByUser", "update_server_list_using_list")

AddIp == \E ip \in RegistryIPs : UpdateUsing(<<ip>>, "AddedByUser", "add_ip")

RemoveIp ==
    \E ip \in RegistryIPs :
        /\ IF contains_ip(serverList, ip)
           THEN /\ serverList' = remove_ip(serverList, ip)
                /\ last' = [Result("remove_ip", "ok",
                                   [serverName |-> "deleted", serverIP |-> ip],
                                   0, "", 0, <<>>, 0)
                               EXCEPT !.before = serverList, !.ip = ip]
           ELSE /\ serverList' = serverList
                /\ last' = [Result("remove_ip", "raise",
                                   [serverName |-> "deleted", serverIP |-> ip],
                                   0, "", 0, <<>>, 0)
                               EXCEPT !.before = serverList, !.ip = ip]
        /\ UNCHANGED <<req_time_lst, engine, tasks, cal, now, inflight>>

\* refreshes over the three addresses of FlaskTestConfig
RefreshAllLists == { <<Remote2>>, <<Remote1, Remote2>> }

\* a refresh keeps or drops a server on whether ping answered: one answer of
\* each kind
RefreshResponses == {PingFalse, PingNone, PingDelay(10)}

RefreshAll ==
    \E lst \in RefreshAllLists :
        UpdateUsingWith(lst, "AddedByUser", "update_server_list_using_list",
                        RefreshResponses)

\* a policy called on the shared registry
Select(func) ==
    /\ func = "select_min_ping_server" => LogsHaveRoom(serverList)
    /\ \E o \in Policy(func, serverList, now) :
          /\ serverList' = o.servers
          /\ last' = Result(func, o.kind,
                            IF o.kind = "server" THEN Ident(o.servers[o.idx]) ELSE NoServer,
                            o.idx, "policy", 0, <<>>, 0)
    /\ UNCHANGED <<req_time_lst, engine, tasks, cal, now, inflight>>

SelectMinPing == Select("select_min_ping_server")

SelectRandom == Select("select_random_server")

-----------------------------------------------------------------------------
(* engine.py: DecisionEngine *)

\* Config.decision_algorithm read with .get(): None for a name it does not hold
decision_algorithm_get(name) ==
    IF name = "default" THEN "select_random_server"
    ELSE IF name = "minimum_ping_delay" THEN "select_min_ping_server"
    ELSE "None"

\* Config.decision_algorithm[name]: the subscript raises KeyError for a name the
\* dict does not hold
decision_algorithm(name) ==
    IF name = "default" THEN "select_random_server"
    ELSE IF name = "minimum_ping_delay" THEN "select_min_ping_server"
    ELSE "KeyError"

\* DecisionEngine.__init__; constructed is FALSE when __init__ raised, and then
\* there is no engine to call
DecisionEngine(algorithm, max_workers, consider_throughput, expected) ==
    [decision_algorithm |-> algorithm,
     constructed |-> decision_algorithm(algorithm) # "KeyError",
     decision_func |-> decision_algorithm(algorithm),
     max_workers |-> max_workers,
     consider_throughout |-> consider_throughput,
     default_throughput_period |-> Period,
     expected_throughput |-> expected]

\* list.sort() on the timestamps (insertion into the sorted prefix)
RECURSIVE InsertSorted(_, _)
InsertSorted(s, x) ==
    IF s = <<>> THEN <<x>>
    ELSE IF x < Head(s) THEN <<x>> \o s
    ELSE <<Head(s)>> \o InsertSorted(Tail(s), x)

RECURSIVE list_sort(_)
list_sort(s) ==
    IF s = <<>> THEN <<>>
    ELSE InsertSorted(list_sort(SubSeq(s, 1, Len(s) - 1)), s[Len(s)])

\* bisect_left in the place of bisect_right
RECURSIVE BisectLeft(_, _, _, _)
BisectLeft(a, x, lo, hi) ==
    IF lo < hi
    THEN LET mid == (lo + hi) \div 2
         IN  IF a[mid + 1] < x
             THEN BisectLeft(a, x, mid + 1, hi)
             ELSE BisectLeft(a, x, lo, mid)
    ELSE lo

bisect_left(a, x) == BisectLeft(a, x, 0, Len(a))

\* bisect.bisect_right(a, x): lo and hi are 0-based as in bisect
RECURSIVE BisectRight(_, _, _, _)
BisectRight(a, x, lo, hi) ==
    IF lo < hi
    THEN LET mid == (lo + hi) \div 2
         IN  IF x < a[mid + 1]
             THEN BisectRight(a, x, lo, mid)
             ELSE BisectRight(a, x, mid + 1, hi)
    ELSE lo

bisect_right(a, x) == BisectRight(a, x, 0, Len(a))

\* cal_throughput without its sort
cal_throughput_unsorted(window, period, t) ==
    [window |-> window,
     throughput |-> Len(window) - bisect_right(window, t - period)]

\* cal_throughput run in one piece on `window` at time t: the window it leaves
\* (sorted in place) and the throughput it returns
cal_throughput(window, period, t) ==
    LET start_time == t - period
        sorted == list_sort(window)
        req_st_index == bisect_right(sorted, start_time)
    IN  [window |-> sorted, throughput |-> Len(sorted) - req_st_index]

\* _choose_server_except_localhost working on the registry itself, not on a copy
choose_server_except_localhost_shared(servers, func, t) ==
    LET new_server_list == remove_ip(servers, Localhost)
    IN  IF Len(new_server_list) = 0
        THEN {[servers |-> new_server_list, kind |-> "None", server |-> NoServer,
               idx |-> 0]}
        ELSE {[servers |-> o.servers, kind |-> o.kind,
               server |-> IF o.kind = "server" THEN Ident(o.servers[o.idx]) ELSE NoServer,
               idx |-> o.idx] : o \in Policy(func, new_server_list, t)}

\* _choose_server_except_localhost: the policy on a deep copy without the first
\* 127.0.0.1 entry; servers is the shared list as the call leaves it, untouched
choose_server_except_localhost(servers, func, t) ==
    LET new_server_list == remove_ip(servers, Localhost)
    IN  IF Len(new_server_list) = 0
        THEN {[servers |-> servers, kind |-> "None", server |-> NoServer, idx |-> 0]}
        ELSE {[servers |-> servers, kind |-> o.kind,
               server |-> IF o.kind = "server" THEN Ident(o.servers[o.idx]) ELSE NoServer,
               idx |-> o.idx] : o \in Policy(func, new_server_list, t)}

\* choose_server's test of the throughput against the expected throughput
prefers_remote_ge(throughput, expected) == throughput >= expected

prefers_remote(throughput, expected) == throughput > expected

\* choose_server asking the policy, then answering with the local device
choose_local_after_policy(servers, func, t) ==
    {[servers |-> o.servers,
      server |-> [serverName |-> "LocalDevice", serverIP |-> Localhost]]
     : o \in Policy(func, servers, t)}

\* return Server("LocalDevice", "127.0.0.1"): a new object, nothing else is called
choose_local(servers, func, t) ==
    {[servers |-> servers,
      server |-> [serverName |-> "LocalDevice", serverIP |-> Localhost]]}

\* the gate guarding on the flag or the address instead of on both
gate_applies_either(eng, servers) ==
    eng.consider_throughout \/ contains_ip(servers, Localhost)

\* the gate guarding on the flag alone
gate_applies_unregistered(eng, servers) == eng.consider_throughout

\* self.consider_throughout and self.server_list.contains_ip("127.0.0.1")
gate_applies(eng, servers) ==
    eng.consider_throughout /\ contains_ip(servers, Localhost)

\* choose_server: every outcome, as [servers, window: the shared state it leaves,
\* kind, server, idx, via: the branch taken]
choose_server(servers, window, eng, t) ==
    IF gate_applies(eng, servers)
    THEN LET c == cal_throughput(window, eng.default_throughput_period, t)
         IN  IF prefers_remote(c.throughput, eng.expected_throughput)
             THEN {[servers |-> o.servers, window |-> c.window, kind |-> o.kind,
                    server |-> o.server, idx |-> o.idx, via |-> "except_localhost"]
                   : o \in choose_server_except_localhost(servers, eng.decision_func, t)}
             ELSE {[servers |-> o.servers, window |-> c.window, kind |-> "server",
                    server |-> o.server, idx |-> 0, via |-> "local"]
                   : o \in choose_local(servers, eng.decision_func, t)}
    ELSE {[servers |-> o.servers, window |-> window, kind |-> o.kind,
           server |-> IF o.kind = "server" THEN Ident(o.servers[o.idx]) ELSE NoServer,
           idx |-> o.idx, via |-> "policy"]
          : o \in Policy(eng.decision_func, servers, t)}

\* TaskInfo, with where its execution in the pool stands
TaskInfo(server, task, port) ==
    [server |-> server, task |-> task, port |-> port,
     pc |-> "queued", cur_time |-> 0, response |-> "", calls |-> 0, url |-> <<>>]

IdleCal == [pc |-> "idle", cur_time |-> 0, start_time |-> 0, idx |-> 0]

\* no refresh and no submit_task under way in a handler thread
IdleUpdate ==
    [pc |-> "idle", lst |-> <<>>, k |-> 1, before |-> {}, after |-> {}]
IdleSelect ==
    [pc |-> "idle", task |-> "", port |-> 0, window |-> <<>>, at |-> 0, during |-> FALSE]
\* no select_min_ping_server pass under way: pending are the probes submitted
\* and not yet finished, before the registry when the pass began, answers what
\* ping answered to the probes that finished, order the order they finished in
IdleProbe ==
    [pc |-> "idle", pending |-> {}, before |-> <<>>, answers |-> <<>>, order |-> <<>>]
IdleFlight == [upd |-> IdleUpdate, sel |-> IdleSelect, probe |-> IdleProbe]

InitRegistry ==
    /\ \E map \in ConfigMaps :
          /\ \A i \in DOMAIN map : map[i][2] \in RegistryIPs
          /\ serverList = read_server_list_from_config(map)
    /\ req_time_lst = <<>>
    /\ engine = DecisionEngine("minimum_ping_delay", 2, FALSE, EXPECTED_THROUGHPUT)
    /\ tasks = <<>>
    /\ cal = IdleCal
    /\ now = 0
    /\ last = Plain("init", "ok")
    /\ inflight = IdleFlight

NextRegistry == Refresh \/ AddIp \/ RemoveIp \/ SelectMinPing \/ SelectRandom

SpecRegistry == InitRegistry /\ [][NextRegistry]_vars

-----------------------------------------------------------------------------
(* The dispatch engine: submit_task and the pool's workers *)

TaskNames == {"hello"}
Ports == {5000}
\* the ip argument of submit_task; "" stands for no address given
ExplicitIPs == {"", Localhost, Remote1}

\* choose_server goes to the policy on the shared registry
UsesSharedPolicy(ip) ==
    /\ ip = ""
    /\ ~gate_applies(engine, serverList)

\* submit_task choosing a server whether or not an address is given
chosen_server_ignoring_ip(ip, servers, window, eng, t) ==
    choose_server(servers, window, eng, t)

\* chosen_server = Server("UserSpecific", ip) if ip else self.choose_server()
chosen_server(ip, servers, window, eng, t) ==
    IF ip # ""
    THEN {[servers |-> servers, window |-> window, kind |-> "server",
           server |-> [serverName |-> "UserSpecific", serverIP |-> ip],
           idx |-> 0, via |-> "explicit"]}
    ELSE choose_server(servers, window, eng, t)

\* submit_task handing a record to the pool whatever was chosen
pool_submit_always(queue, o, task, port) == Append(queue, TaskInfo(o.server, task, port))

\* submit_task after the choice: None is returned without a record for the pool,
\* a chosen server is wrapped in a TaskInfo and handed to the pool
pool_submit(queue, o, task, port) ==
    IF o.kind = "server"
    THEN Append(queue, TaskInfo(o.server, task, port))
    ELSE queue

submit_task(task, port, ip) ==
    /\ engine.constructed
    /\ (UsesSharedPolicy(ip) /\ engine.decision_func = "select_min_ping_server")
          => LogsHaveRoom(serverList)
    /\ \E o \in chosen_server(ip, serverList, req_time_lst, engine, now) :
          /\ serverList' = o.servers
          /\ req_time_lst' = o.window
          /\ tasks' = pool_submit(tasks, o, task, port)
          /\ last' = [Result("submit_task", o.kind, o.server, o.idx, o.via, 0,
                             req_time_lst, now)
                         EXCEPT !.before = serverList, !.ip = ip, !.queued = Len(tasks),
                                !.task = task, !.port = port]
    /\ UNCHANGED <<engine, cal, now, inflight>>

Running == {i \in DOMAIN tasks : tasks[i].pc \in {"started", "request"}}

\* a pool that starts a thread for every record
has_idle_worker_always(running, max_workers) == TRUE

\* a pool that keeps one of its threads back
has_idle_worker_but_one(running, max_workers) == running < max_workers - 1

\* ThreadPoolExecutor(max_workers): a record is taken when fewer than
\* max_workers threads are busy
has_idle_worker(running, max_workers) == running < max_workers

\* a worker takes the oldest queued item and runs offload_task up to cur_time
WorkerStart(i) ==
    /\ tasks[i].pc = "queued"
    /\ \A j \in 1..(i - 1) : tasks[j].pc # "queued"
    /\ has_idle_worker(Cardinality(Running), engine.max_workers)
    /\ tasks' = [tasks EXCEPT ![i].pc = "started", ![i].cur_time = now]
    /\ UNCHANGED <<serverList, req_time_lst, engine, cal, now, last, inflight>>

\* offload_task recording whatever the server is
offload_record_any(task, window) == Append(window, task.cur_time)

\* offload_task: the test for the local device and the append
offload_record(task, window) ==
    IF ServerEq(task.server, Server("temp", Localhost))
    THEN Append(window, task.cur_time)
    ELSE window

WorkerRecord(i) ==
    /\ tasks[i].pc = "started"
    /\ req_time_lst' = offload_record(tasks[i], req_time_lst)
    /\ tasks' = [tasks EXCEPT ![i].pc = "request"]
    /\ UNCHANGED <<serverList, engine, cal, now, last, inflight>>

\* offload_task calling requests.get again after a failure
offload_request_retry(task, r) ==
    IF r = "raise" /\ task.calls = 0
    THEN [task EXCEPT !.calls = @ + 1,
                      !.url = <<task.server.serverIP, task.port, task.task>>]
    ELSE [task EXCEPT !.pc = "done", !.response = r, !.calls = @ + 1,
                      !.url = <<task.server.serverIP, task.port, task.task>>]

\* r = requests.get(f"http://{server.serverIP}:{port}/{task}"); return r: one call
\* to url, whose response or exception resolves the future of the record
offload_request(task, r) ==
    [task EXCEPT !.pc = "done", !.response = r, !.calls = @ + 1,
                 !.url = <<task.server.serverIP, task.port, task.task>>]

\* requests.get returns a response or raises
WorkerFinish(i) ==
    /\ tasks[i].pc = "request"
    /\ \E r \in {"response", "raise"} :
          tasks' = [tasks EXCEPT ![i] = offload_request(@, r)]
    /\ UNCHANGED <<serverList, req_time_lst, engine, cal, now, last, inflight>>

Tick ==
    /\ now < MaxTime
    /\ now' = now + 1
    /\ UNCHANGED <<serverList, req_time_lst, engine, tasks, cal, last, inflight>>

Submit ==
    \E task \in TaskNames, port \in Ports, ip \in ExplicitIPs :
        /\ Len(tasks) < MaxTasks
        /\ submit_task(task, port, ip)

Start == \E i \in DOMAIN tasks : WorkerStart(i)

Record == \E i \in DOMAIN tasks : WorkerRecord(i)

Finish == \E i \in DOMAIN tasks : WorkerFinish(i)

\* a route handler's de.cal_throughput(), statement by statement
CalBegin ==
    /\ cal.pc = "idle"
    /\ cal' = [pc |-> "sort", cur_time |-> now,
               start_time |-> now - engine.default_throughput_period, idx |-> 0]
    /\ UNCHANGED <<serverList, req_time_lst, engine, tasks, now, last, inflight>>

CalSort ==
    /\ cal.pc = "sort"
    /\ req_time_lst' = list_sort(req_time_lst)
    /\ cal' = [cal EXCEPT !.pc = "bisect"]
    /\ UNCHANGED <<serverList, engine, tasks, now, last, inflight>>

CalBisect ==
    /\ cal.pc = "bisect"
    /\ cal' = [cal EXCEPT !.pc = "len", !.idx = bisect_right(req_time_lst, cal.start_time)]
    /\ UNCHANGED <<serverList, req_time_lst, engine, tasks, now, last, inflight>>

CalReturn ==
    /\ cal.pc = "len"
    /\ last' = Result("cal_throughput", "ok", NoServer, 0, "handler",
                      Len(req_time_lst) - cal.idx, <<>>, cal.cur_time)
    /\ cal' = IdleCal
    /\ UNCHANGED <<serverList, req_time_lst, engine, tasks, now, inflight>>

\* cal_throughput called with nothing else running
CalThroughput ==
    /\ LET c == cal_throughput(req_time_lst, engine.default_throughput_period, now)
       IN  /\ req_time_lst' = c.window
           /\ last' = Result("cal_throughput", "ok", NoServer, 0, "call",
                             c.throughput, req_time_lst, now)
    /\ UNCHANGED <<serverList, engine, tasks, cal, now, inflight>>

\* offload_task recording a local dispatch whose cur_time was ts
RecordLocal ==
    \E ts \in 0..now :
        /\ Len(req_time_lst) < MaxWindow
        /\ req_time_lst' = offload_record(
               [TaskInfo([serverName |-> "LocalDevice", serverIP |-> Localhost], "hello", 5000)
                   EXCEPT !.cur_time = ts], req_time_lst)
        /\ last' = Plain("offload_task", "ok")
        /\ UNCHANGED <<serverList, engine, tasks, cal, now, inflight>>

-----------------------------------------------------------------------------
(* A refresh and a submit_task in two handler threads, statement by statement. *)
(* Neither takes a lock: each step below reads or rebinds self.serverList as   *)
(* it is at that moment.                                                       *)

RaceLists == { <<Remote2>> }

\* line 140: every registered server is probed and self.serverList is rebound to
\* those that answered
UpdBegin ==
    \E lst \in RaceLists :
        /\ inflight.upd.pc = "idle"
        /\ LogsHaveRoom(serverList)
        /\ \E respOld \in [DOMAIN serverList -> RefreshResponses] :
              serverList' = still_available(ProbeAll(serverList, respOld, now), respOld)
        /\ inflight' = [inflight EXCEPT
                           !.upd = [pc |-> "add", lst |-> lst, k |-> 1,
                                    before |-> Addresses(serverList), after |-> {}],
                           !.sel.during = @ \/ inflight.sel.pc # "idle"]
        /\ UNCHANGED <<req_time_lst, engine, tasks, cal, now, last>>

\* lines 141-145: one item of the list is probed and appended if it answered
UpdAdd ==
    /\ inflight.upd.pc = "add"
    /\ inflight.upd.k <= Len(inflight.upd.lst)
    /\ \E resp \in RefreshResponses :
          LET server == test_availability(
                            Server("AddedByUser", inflight.upd.lst[inflight.upd.k]),
                            resp, now)
          IN  serverList' = IF TestResult(resp)
                            THEN Append(serverList, server)
                            ELSE serverList
    /\ inflight' = [inflight EXCEPT !.upd.k = @ + 1]
    /\ UNCHANGED <<req_time_lst, engine, tasks, cal, now, last>>

\* line 147: self.serverList = list(set(self.serverList))
UpdDedup ==
    /\ inflight.upd.pc = "add"
    /\ inflight.upd.k > Len(inflight.upd.lst)
    /\ serverList' \in ListOfSet(serverList)
    /\ inflight' = [inflight EXCEPT !.upd.pc = "done",
                                    !.upd.after = Addresses(serverList')]
    /\ UNCHANGED <<req_time_lst, engine, tasks, cal, now, last>>

\* submit_task returns (or raises) with outcome o of the choice
SelReturn(o) ==
    /\ tasks' = pool_submit(tasks, o, inflight.sel.task, inflight.sel.port)
    /\ last' = [Result("submit_task", o.kind, o.server, o.idx, o.via, 0,
                       inflight.sel.window, inflight.sel.at)
                   EXCEPT !.queued = Len(tasks)]
    /\ inflight' = [inflight EXCEPT !.sel.pc = "idle"]

Raised(via) == [kind |-> "raise", server |-> NoServer, idx |-> 0, via |-> via]

\* submit_task without an address enters choose_server: the test
\* consider_throughout and contains_ip("127.0.0.1")
SelBegin ==
    \E task \in TaskNames, port \in Ports :
        /\ inflight.sel.pc = "idle"
        /\ Len(tasks) < MaxTasks
        /\ inflight' = [inflight EXCEPT !.sel =
               [pc |-> IF engine.consider_throughout /\ contains_ip(serverList, Localhost)
                       THEN "gate" ELSE "policy",
                task |-> task, port |-> port, window |-> req_time_lst, at |-> now,
                during |-> inflight.upd.pc = "add"]]
        /\ UNCHANGED <<serverList, req_time_lst, engine, tasks, cal, now, last>>

\* the test of cal_throughput() against expected_throughput
SelGate ==
    /\ inflight.sel.pc = "gate"
    /\ LET c == cal_throughput(req_time_lst, engine.default_throughput_period, now)
       IN  /\ req_time_lst' = c.window
           /\ IF prefers_remote(c.throughput, engine.expected_throughput)
              THEN /\ inflight' = [inflight EXCEPT !.sel.pc = "copy"]
                   /\ UNCHANGED <<tasks, last>>
              ELSE SelReturn([kind |-> "server",
                              server |-> [serverName |-> "LocalDevice",
                                          serverIP |-> Localhost],
                              idx |-> 0, via |-> "local"])
    /\ UNCHANGED <<serverList, engine, cal, now>>

\* _choose_server_except_localhost: the deep copy of the registry as it is now,
\* remove_ip on it (list.remove raises when 127.0.0.1 is gone), the policy
SelCopy ==
    /\ inflight.sel.pc = "copy"
    /\ IF contains_ip(serverList, Localhost)
       THEN \E o \in choose_server_except_localhost(serverList, engine.decision_func, now) :
               SelReturn([kind |-> o.kind, server |-> o.server, idx |-> o.idx,
                          via |-> "except_localhost"])
       ELSE SelReturn(Raised("except_localhost"))
    /\ UNCHANGED <<serverList, req_time_lst, engine, cal, now>>

\* the policy on the shared registry: random.choice, or the executor of
\* select_min_ping_server sized by len(self.serverList)
SelPolicy ==
    /\ inflight.sel.pc = "policy"
    /\ IF engine.decision_func = "select_random_server"
       THEN \E o \in select_random_server(serverList) :
               SelReturn([kind |-> o.kind,
                          server |-> IF o.kind = "server"
                                     THEN Ident(serverList[o.idx]) ELSE NoServer,
                          idx |-> o.idx, via |-> "policy"])
       ELSE IF serverList = <<>>
            THEN SelReturn(Raised("policy"))
            ELSE /\ inflight' = [inflight EXCEPT !.sel.pc = "probe"]
                 /\ UNCHANGED <<tasks, last>>
    /\ UNCHANGED <<serverList, req_time_lst, engine, cal, now>>

\* select_min_ping_server, first loop: the servers of the list are probed
SelProbe ==
    /\ inflight.sel.pc = "probe"
    /\ LogsHaveRoom(serverList)
    /\ \E resp \in [DOMAIN serverList -> PingResponses] :
          serverList' = ProbeAll(serverList, resp, now)
    /\ inflight' = [inflight EXCEPT !.sel.pc = "scan"]
    /\ UNCHANGED <<req_time_lst, engine, tasks, cal, now, last>>

\* select_min_ping_server, second loop: the scan of availability[0] over the list
\* as it is now (an empty log raises IndexError)
SelScan ==
    /\ inflight.sel.pc = "scan"
    /\ IF \E i \in DOMAIN serverList : serverList[i].availability = <<>>
       THEN SelReturn(Raised("policy"))
       ELSE LET idx == select_min_ping_index(serverList)
            IN  SelReturn([kind |-> IF idx = 0 THEN "None" ELSE "server",
                           server |-> IF idx = 0 THEN NoServer
                                      ELSE Ident(serverList[idx]),
                           idx |-> idx, via |-> "policy"])
    /\ UNCHANGED <<serverList, req_time_lst, engine, cal, now>>

-----------------------------------------------------------------------------
(* select_min_ping_server probe by probe: the executor runs one               *)
(* test_availability per registered server, in any order                      *)

ProbeDelays == {0, 10, MinPingDefault - 1, MinPingDefault}
\* what ping3.ping can answer: False, None, or a delay in ms
ProbeResponses == {PingFalse, PingNone} \cup {PingDelay(d) : d \in ProbeDelays}

NoAnswer == [kind |-> "pending", ms |-> 0]

\* the scan starting without waiting for the futures
all_probes_done_unwaited(pending) == TRUE

\* [future.result() for future in futures] returns once every probe has finished
all_probes_done(pending) == pending = {}

\* the executor is built and one test_availability is submitted per server
FanOut ==
    /\ inflight.probe.pc = "idle"
    /\ LogsHaveRoom(serverList)
    /\ IF serverList = <<>>
       THEN /\ last' = [Plain("select_min_ping_server", "raise") EXCEPT !.via = "fan-out"]
            /\ inflight' = [inflight EXCEPT !.probe = IdleProbe]
       ELSE /\ last' = last
            /\ inflight' = [inflight EXCEPT !.probe =
                               [pc |-> "wait", pending |-> DOMAIN serverList,
                                before |-> serverList,
                                answers |-> [i \in DOMAIN serverList |-> NoAnswer],
                                order |-> <<>>]]
    /\ UNCHANGED <<serverList, req_time_lst, engine, tasks, cal, now>>

\* the probe of server i finishes: test_availability appends its result
ProbeDone(i) ==
    /\ i \in inflight.probe.pending
    /\ \E response \in ProbeResponses :
          /\ serverList' = [serverList EXCEPT ![i] = test_availability(@, response, now)]
          /\ inflight' = [inflight EXCEPT !.probe.pending = @ \ {i},
                                          !.probe.answers[i] = response,
                                          !.probe.order = Append(@, i)]
    /\ UNCHANGED <<req_time_lst, engine, tasks, cal, now, last>>

ProbeFinish == \E i \in DOMAIN serverList : ProbeDone(i)

\* the futures are waited for, then the scan picks the minimum
\* (an empty log raises IndexError)
FanIn ==
    /\ inflight.probe.pc = "wait"
    /\ all_probes_done(inflight.probe.pending)
    /\ IF \E i \in DOMAIN serverList : serverList[i].availability = <<>>
       THEN last' = [Plain("select_min_ping_server", "raise") EXCEPT !.via = "fan-in"]
       ELSE LET idx == select_min_ping_index(serverList)
            IN  last' = [Result("select_min_ping_server",
                                IF idx = 0 THEN "None" ELSE "server",
                                IF idx = 0 THEN NoServer ELSE Ident(serverList[idx]),
                                idx, "fan-in", 0, <<>>, now)
                            EXCEPT !.before = inflight.probe.before]
    /\ inflight' = [inflight EXCEPT !.probe.pc = "idle"]
    /\ UNCHANGED <<serverList, req_time_lst, engine, tasks, cal, now>>

-----------------------------------------------------------------------------
(* Specifications *)

Algorithms == {"default", "minimum_ping_delay"}
ExpectedThroughputs == {0, 1}
WorkerCounts == {1, 2}

InitWith(maps, engines) ==
    /\ \E map \in maps : serverList = read_server_list_from_config(map)
    /\ req_time_lst = <<>>
    /\ engine \in engines
    /\ tasks = <<>>
    /\ cal = IdleCal
    /\ now = 0
    /\ last = Plain("init", "ok")
    /\ inflight = IdleFlight

\* the dispatch engine under every configuration, within one clock tick
\* and the registry of FlaskTestConfig under the engine app.py builds
FlaskTestMap ==
    << <<"LocalDevice", Localhost>>, <<"vagrant-ubuntu1", Remote1>>,
       <<"vagrant-ubuntu2", Remote2>> >>

\* names that Config.decision_algorithm does not hold
UnknownAlgorithms == {"round_robin"}

Init ==
    \/ InitWith(ConfigMaps \ {FlaskTestMap},
                {DecisionEngine(a, w, c, e) :
                    a \in Algorithms \cup UnknownAlgorithms, w \in WorkerCounts,
                    c \in BOOLEAN, e \in ExpectedThroughputs})
    \/ InitWith({FlaskTestMap},
                {DecisionEngine("minimum_ping_delay", w, TRUE, e) :
                    w \in WorkerCounts, e \in ExpectedThroughputs})

Next == Submit \/ Start \/ Record \/ Finish

Spec == Init /\ [][Next]_vars

\* the admission gate over time, on the registry of config.Config
WindowMap == << <<"LocalDevice", Localhost>>, <<"vagrant-ubuntu", Remote1>> >>

InitGate ==
    InitWith({WindowMap},
             {DecisionEngine("default", 2, TRUE, e) : e \in ExpectedThroughputs})

NextGate == Submit \/ Start \/ Record \/ Finish \/ Tick

SpecGate == InitGate /\ [][NextGate]_vars

\* the throughput window shared by the workers, the gate and the route
\* handlers' cal_throughput calls
InitWindow ==
    InitWith({WindowMap}, {DecisionEngine("default", 2, c, 0) : c \in BOOLEAN})

NextWindow ==
    Submit \/ Start \/ Record \/ Finish \/ Tick
    \/ CalBegin \/ CalSort \/ CalBisect \/ CalReturn

SpecWindow == InitWindow /\ [][NextWindow]_vars

\* cal_throughput as a function of the window and the clock: every window of
\* timestamps taken at or before the clock reading
RECURSIVE SeqsUpTo(_, _)
SeqsUpTo(S, n) ==
    IF n = 0 THEN {<<>>}
    ELSE LET shorter == SeqsUpTo(S, n - 1)
         IN  shorter \cup {Append(s, x) : s \in shorter, x \in S}

InitCal ==
    /\ \E map \in {WindowMap} : serverList = read_server_list_from_config(map)
    /\ now \in 0..MaxStamp
    /\ req_time_lst \in SeqsUpTo(0..now, MaxWindow)
    /\ engine = DecisionEngine("minimum_ping_delay", 2, TRUE, EXPECTED_THROUGHPUT)
    /\ tasks = <<>>
    /\ cal = IdleCal
    /\ last = Plain("init", "ok")
    /\ inflight = IdleFlight

NextCal == CalThroughput \/ RecordLocal

SpecCal == InitCal /\ [][NextCal]_vars

\* the end-to-end scenario: registry {A: 127.0.0.1, B: 10.0.0.2}, the gate on,
\* EXPECTED_THROUGHPUT of config.Config, submissions made within one period,
\* B reachable and answering
ScenarioMap == << <<"A", Localhost>>, <<"B", Remote1>> >>

InitScenario ==
    InitWith({ScenarioMap},
             {DecisionEngine("minimum_ping_delay", w, TRUE, EXPECTED_THROUGHPUT)
                 : w \in {2}})

SubmitScenario ==
    \E task \in TaskNames, port \in Ports :
        /\ Len(tasks) < Submissions
        /\ submit_task(task, port, "")
        /\ last'.kind = "server"

FinishScenario ==
    \E i \in DOMAIN tasks : WorkerFinish(i) /\ tasks'[i].response = "response"

NextScenario == SubmitScenario \/ Start \/ Record \/ FinishScenario

SpecScenario == InitScenario /\ [][NextScenario]_vars

\* the registry under refreshes alone
InitRefresh ==
    InitWith({ << <<"LocalDevice", Localhost>> >>, WindowMap },
             {DecisionEngine("minimum_ping_delay", 2, FALSE, EXPECTED_THROUGHPUT)})

NextRefresh == RefreshAll

SpecRefresh == InitRefresh /\ [][NextRefresh]_vars

\* one refresh of the registry of config.Config while requests are submitted
InitRace ==
    InitWith({WindowMap},
             {DecisionEngine(a, 2, c, 0) : a \in Algorithms, c \in BOOLEAN})

NextRace ==
    UpdBegin \/ UpdAdd \/ UpdDedup
    \/ SelBegin \/ SelGate \/ SelCopy \/ SelPolicy \/ SelProbe \/ SelScan
    \/ Start \/ Record \/ Finish

SpecRace == InitRace /\ [][NextRace]_vars

\* requests of the two interface classes, with the port of each
Requests == { <<"hello", 5000>>, <<"SCIDE/SCManager?action=ping", 18000>> }

\* submit_task of either request without an address, or with 127.0.0.1
SubmitRequest ==
    \E request \in Requests, ip \in {"", Localhost} :
        /\ Len(tasks) < MaxTasks
        /\ submit_task(request[1], request[2], ip)

\* the engine with a pool of one worker, on the registry of config.Config and on
\* one without 127.0.0.1
InitDispatch ==
    InitWith({WindowMap, << <<"ubuntu2004", Remote1>>, <<"manjaro", Remote2>> >>},
             {DecisionEngine(a, 1, c, 0) : a \in Algorithms, c \in BOOLEAN})

NextDispatch == SubmitRequest \/ Start \/ Record \/ Finish

SpecDispatch == InitDispatch /\ [][NextDispatch]_vars

\* the pool of one worker under the default policy, its threads scheduled
\* fairly: an idle worker takes the oldest queued record, a running offload_task
\* reaches its next statement, and requests.get returns or raises
InitLive ==
    InitWith({WindowMap}, {DecisionEngine("default", 1, c, 0) : c \in BOOLEAN})

SpecLive ==
    /\ InitLive
    /\ [][NextDispatch]_vars
    /\ WF_vars(Start) /\ WF_vars(Record) /\ WF_vars(Finish)

\* select_min_ping_server passes on the registry of config.Config, on a registry
\* with two entries of one address, and on an empty one
InitProbe ==
    InitWith({WindowMap, <<>>, << <<"LocalDevice", Localhost>>, <<"Loopback", Localhost>> >>},
             {DecisionEngine("minimum_ping_delay", 2, FALSE, EXPECTED_THROUGHPUT)})

NextProbe == FanOut \/ ProbeFinish \/ FanIn

SpecProbe == InitProbe /\ [][NextProbe]_vars

-----------------------------------------------------------------------------
(* Properties *)

\* the most recent entry of a server's probe log
Latest(server) == server.availability[Len(server.availability)]

\* the entries of a window newer than t - Period, counted one by one
Qualifying(window, t) == Cardinality({i \in DOMAIN window : window[i] > t - Period})

AfterMinPing == last.op = "select_min_ping_server" /\ last.kind # "raise"

\* C1: whenever some server's probe of the pass succeeded, select_min_ping_server
\* returns the server whose most recent probe has the smallest delay among the
\* servers whose most recent probe is available, the first registered on a tie.
C1_MinOfMostRecentProbes ==
    (AfterMinPing /\ \E i \in DOMAIN serverList : Latest(serverList[i]).available)
    => /\ last.kind = "server"
       /\ Latest(serverList[last.idx]).available
       /\ \A i \in DOMAIN serverList :
             Latest(serverList[i]).available
             => \/ Latest(serverList[last.idx]).delay.val < Latest(serverList[i]).delay.val
                \/ /\ Latest(serverList[last.idx]).delay.val = Latest(serverList[i]).delay.val
                   /\ last.idx <= i

\* C2: select_min_ping_server never returns a server whose probe of this pass
\* failed, and on a registry whose probes of this pass all failed it returns None.
C2_NeverAFailedProbe ==
    AfterMinPing
    => /\ last.kind = "server" => Latest(serverList[last.idx]).available
       /\ (\A i \in DOMAIN serverList : ~Latest(serverList[i]).available)
             => last.kind = "None"

\* C3 as stated: of the submissions made within one period, the 1st to the 25th
\* go to 127.0.0.1 and every later one goes to another server, whatever the
\* workers have recorded by then.
C3_First25LocalRestRemote ==
    \A k \in DOMAIN tasks :
        /\ k <= EXPECTED_THROUGHPUT => tasks[k].server.serverIP = Localhost
        /\ k > EXPECTED_THROUGHPUT => tasks[k].server.serverIP # Localhost

\* C3 amended: the 1st to the 26th submission go to 127.0.0.1 under every
\* interleaving, and a later submission goes to another server exactly when more
\* than 25 local dispatches of the period were recorded by the workers when it
\* was made.
C3_First26LocalThenByRecorded ==
    /\ \A k \in DOMAIN tasks :
          k <= EXPECTED_THROUGHPUT + 1 => tasks[k].server.serverIP = Localhost
    /\ (last.op = "submit_task" /\ tasks # <<>>)
          => (tasks[Len(tasks)].server.serverIP # Localhost
                 <=> Qualifying(last.window, last.at) > EXPECTED_THROUGHPUT)

C3_Witness ==
    /\ Len(tasks) = Submissions
    /\ \A k \in DOMAIN tasks : k > EXPECTED_THROUGHPUT + 1 => tasks[k].server.serverIP = Remote1

C5_EmptyRegistryReturnsNone ==
    (last.op = "submit_task" /\ last.via # "explicit" /\ serverList = <<>>)
    => last.kind = "None"

\* C6: a selection that excludes the local device returns a server at another
\* address or None, and never raises.
C6_RemoteOnlyNeverLocalhost ==
    (last.op = "submit_task" /\ last.via = "except_localhost")
    => /\ last.kind \in {"server", "None"}
       /\ last.kind = "server" => last.server.serverIP # Localhost

\* the timestamps the executions for 127.0.0.1 have recorded so far
Recorded(t) ==
    {i \in DOMAIN tasks :
        /\ tasks[i].server.serverIP = Localhost
        /\ tasks[i].pc \in {"request", "done"}
        /\ tasks[i].cur_time = t}

\* C7: the window holds exactly one entry, its cur_time, for every execution for
\* 127.0.0.1 that has passed its append, and nothing else.
C7_OneEntryPerLocalExecution ==
    \A t \in 0..MaxTime :
        Cardinality({k \in DOMAIN req_time_lst : req_time_lst[k] = t})
            = Cardinality(Recorded(t))

\* two workers have appended for 127.0.0.1 at different clock readings, one for
\* a server the engine chose and one for an explicit address, while a
\* cal_throughput call stands between its sort and its return
C7_Witness ==
    /\ cal.pc = "bisect"
    /\ \E i, j \in DOMAIN tasks :
          /\ tasks[i].pc = "request" /\ tasks[j].pc = "request"
          /\ tasks[i].server = [serverName |-> "UserSpecific", serverIP |-> Localhost]
          /\ tasks[j].server = [serverName |-> "LocalDevice", serverIP |-> Localhost]
          /\ tasks[i].cur_time # tasks[j].cur_time

\* C8: cal_throughput returns the number of entries of the window that are
\* strictly greater than now - period.
C8_CountsEntriesNewerThanStart ==
    last.op = "cal_throughput" => last.val = Qualifying(last.window, last.at)

\* a call on an unsorted window with an entry inside the period, an entry exactly
\* at now - period and an entry before it
C8_Witness ==
    /\ last.op = "cal_throughput"
    /\ last.window # list_sort(last.window)
    /\ \E i, j, k \in DOMAIN last.window :
          /\ last.window[i] > last.at - Period
          /\ last.window[j] = last.at - Period
          /\ last.window[k] < last.at - Period
    /\ last.val = 1

\* the entries of window after its first n all lie within the period at t
RecordedWithin(window, n, t) ==
    \A i \in (n + 1)..Len(window) : window[i] > t - Period /\ window[i] <= t

\* C9: cal_throughput is never negative, and it returns no less than it does at
\* the same clock on the window as it was before further timestamps of the period
\* were recorded.
C9_NonNegativeAndMonotone ==
    last.op = "cal_throughput"
    => /\ last.val >= 0
       /\ \A n \in 0..Len(last.window) :
             RecordedWithin(last.window, n, last.at)
             => last.val >= cal_throughput(SubSeq(last.window, 1, n), Period,
                                           last.at).throughput

C9_Witness ==
    /\ last.op = "cal_throughput"
    /\ \E n \in 1..(Len(last.window) - 1) :
          /\ RecordedWithin(last.window, n, last.at)
          /\ cal_throughput(SubSeq(last.window, 1, n), Period, last.at).throughput > 0
          /\ last.val > cal_throughput(SubSeq(last.window, 1, n), Period,
                                       last.at).throughput

\* C10: no two entries of the registry share an address.
C10_NoSharedAddress ==
    \A i, j \in DOMAIN serverList :
        serverList[i].serverIP = serverList[j].serverIP => i = j

AfterRefresh == last.op = "update_server_list_using_list"

\* C11: after a refresh the addresses of the registry are exactly the addresses,
\* of those registered before and those of the list, that passed a probe of this
\* refresh.
C11_RefreshKeepsWhatPassed ==
    AfterRefresh
    => /\ Addresses(serverList) = last.passed
       /\ last.passed \subseteq (last.members \cup Range(last.lst))

\* a registered address outside the list failed and is gone, an address of the
\* list passed and is new, another address of the list failed and is absent
C11_Witness ==
    /\ AfterRefresh
    /\ \E x \in last.members \ Range(last.lst) : x \notin Addresses(serverList)
    /\ \E y \in Range(last.lst) \ last.members : y \in Addresses(serverList)
    /\ \E z \in Range(last.lst) \ last.members : z \notin Addresses(serverList)

\* C12: a refresh with the list of the refresh directly before it, every probe of
\* both having passed, leaves the address set of the registry as it found it.
C12_RefreshIdempotent ==
    (/\ AfterRefresh
     /\ last.allok
     /\ last.prior = [refreshed |-> TRUE, lst |-> last.lst, allok |-> TRUE])
    => Addresses(serverList) = last.members

\* the second of two such refreshes, the first of which added an address
C12_Witness ==
    /\ AfterRefresh
    /\ last.allok
    /\ last.prior = [refreshed |-> TRUE, lst |-> last.lst, allok |-> TRUE]
    /\ \E i \in DOMAIN serverList :
          /\ serverList[i].serverName = "AddedByUser"
          /\ Len(serverList[i].availability) = 2
    /\ Cardinality(Addresses(serverList)) > 1

\* C13: remove_ip on a registry that holds the address leaves the registry
\* without that address and with every other entry in its place; on a registry
\* that does not hold it the call raises and the registry is as it was.
C13_RemoveTakesTheAddressOut ==
    last.op = "remove_ip"
    => IF contains_ip(last.before, last.ip)
       THEN /\ last.kind = "ok"
            /\ ~contains_ip(serverList, last.ip)
            /\ serverList = FilterBy(last.before,
                                     [i \in DOMAIN last.before |->
                                         last.before[i].serverIP # last.ip])
       ELSE /\ last.kind = "raise"
            /\ serverList = last.before

\* C14: a selection that excludes the local device leaves the shared registry
\* with the members, the order and the probe logs it had when submit_task began.
C14_RemoteOnlyLeavesRegistry ==
    (last.op = "submit_task" /\ last.via = "except_localhost")
    => serverList = last.before

\* the minimum-delay policy has probed the copy and returned one of its servers
C14_Witness ==
    /\ last.op = "submit_task"
    /\ last.via = "except_localhost"
    /\ last.kind = "server"
    /\ engine.decision_func = "select_min_ping_server"
    /\ Len(serverList) > 2
    /\ serverList = last.before

\* C15: submit_task with an address returns that address without the gate or a
\* policy having run, queues one dispatch record for it, and leaves the registry
\* and its probe logs as they were, whatever the registry holds.
C15_ExplicitAddressSkipsSelection ==
    (last.op = "submit_task" /\ last.ip # "")
    => /\ last.via = "explicit"
       /\ last.kind = "server"
       /\ last.server = [serverName |-> "UserSpecific", serverIP |-> last.ip]
       /\ serverList = last.before
       /\ Len(tasks) = last.queued + 1
       /\ tasks[Len(tasks)].server = last.server

\* an address given to an engine whose registry is empty
C15_Witness ==
    /\ last.op = "submit_task"
    /\ last.ip = Remote1
    /\ last.kind = "server"
    /\ serverList = <<>>
    /\ tasks[Len(tasks)].server.serverIP = Remote1

\* the dispatch records whose execution has passed the append to the window
PastAppend == {i \in DOMAIN tasks : tasks[i].pc \in {"request", "done"}}

\* C16: a submit_task that chose no server adds no dispatch record; every
\* dispatch record, queued or executing, carries a chosen server, a submit_task
\* that chose one queues exactly its record, and the window holds timestamps of
\* executed records only.
C16_NoServerNoDispatch ==
    /\ \A i \in DOMAIN tasks : tasks[i].server.serverIP # ""
    /\ last.op = "submit_task"
          => IF last.kind = "server"
             THEN /\ Len(tasks) = last.queued + 1
                  /\ tasks[Len(tasks)].server = last.server
             ELSE Len(tasks) = last.queued
    /\ Len(req_time_lst) <= Cardinality(PastAppend)

\* a selection among the other servers found none, after an earlier request
\* was dispatched, recorded and completed
C16_Witness ==
    /\ last.op = "submit_task"
    /\ last.kind = "None"
    /\ last.via = "except_localhost"
    /\ Len(tasks) = 1
    /\ tasks[1].pc = "done"
    /\ Len(req_time_lst) = 1

\* C17: a submit_task that ran while a refresh was under way, between two
\* registries that both hold a server, does not raise, and a server it chose is
\* at an address of the registry before or after the refresh.
C17_SelectionUnharmedByRefresh ==
    (/\ last.op = "submit_task"
     /\ inflight.sel.pc = "idle"
     /\ inflight.sel.during
     /\ inflight.upd.pc = "done"
     /\ inflight.upd.before # {}
     /\ inflight.upd.after # {})
    => /\ last.kind \in {"server", "None"}
       /\ last.kind = "server"
             => last.server.serverIP \in inflight.upd.before \cup inflight.upd.after

\* C18: never more than max_workers dispatch records are being executed; the
\* records wait in the order they were submitted, none is lost, and a
\* submit_task that chose a server has added its record however busy the pool.
C18_PoolCeilingAndQueue ==
    /\ Cardinality(Running) <= engine.max_workers
    /\ \A i, j \in DOMAIN tasks :
          (i < j /\ tasks[i].pc = "queued") => tasks[j].pc = "queued"
    /\ \A i \in DOMAIN tasks : tasks[i].pc \in {"queued", "started", "request", "done"}
    /\ (last.op = "submit_task" /\ last.kind = "server")
          => Len(tasks) = last.queued + 1

\* submit_task has returned with every worker busy: its record waits
C18_Witness ==
    /\ last.op = "submit_task"
    /\ last.kind = "server"
    /\ Cardinality(Running) = engine.max_workers
    /\ last.queued = engine.max_workers
    /\ tasks[Len(tasks)].pc = "queued"

\* C19: on a registry that holds a server select_random_server returns one of
\* its entries, and it returns None on no registry but an empty one.
C19_RandomReturnsAMember ==
    last.op = "select_random_server"
    => /\ serverList # <<>>
             => /\ last.kind = "server"
                /\ last.idx \in DOMAIN serverList
                /\ Ident(serverList[last.idx]) = last.server
       /\ last.kind = "None" => serverList = <<>>

\* the second of several entries was returned
C19_Witness ==
    /\ last.op = "select_random_server"
    /\ last.kind = "server"
    /\ Len(serverList) > 1
    /\ last.idx = 2
    /\ last.server.serverIP = serverList[2].serverIP

\* C20: an engine is constructed exactly when its decision_algorithm is a name
\* of Config.decision_algorithm; nothing is submitted to an engine that was not
\* constructed, and no submit_task of a constructed engine fails to resolve
\* its policy.
C20_UnknownAlgorithmRejected ==
    /\ engine.constructed <=> engine.decision_algorithm \in Algorithms
    /\ engine.constructed
          => engine.decision_func \in {"select_random_server", "select_min_ping_server"}
    /\ ~engine.constructed => (tasks = <<>> /\ last.op = "init")
    /\ last.op = "submit_task" => last.kind # "unresolved"

\* the construction with a name the configuration does not hold has failed
C20_Witness ==
    /\ engine.decision_algorithm \in UnknownAlgorithms
    /\ ~engine.constructed
    /\ engine.decision_func = "KeyError"

-----------------------------------------------------------------------------
\* C21: a failure of the outbound call surfaces only on the handle of the request.
\* Every step in which requests.get is called for a record is the one call of
\* that record (no retry): it resolves the record's handle with the response or
\* the failure, leaves the registry, the throughput window, every other record
\* and what submit_task returned as they were, and the timestamp a loopback
\* dispatch recorded is still in the window; a resolved record is never run again.
C21_Call(i) ==
    /\ tasks[i].calls = 0
    /\ tasks'[i] = [tasks[i] EXCEPT !.pc = "done", !.response = tasks'[i].response,
                                    !.calls = 1, !.url = tasks'[i].url]
    /\ tasks'[i].response \in {"response", "raise"}
    /\ \A j \in DOMAIN tasks : j # i => tasks'[j] = tasks[j]
    /\ serverList' = serverList
    /\ req_time_lst' = req_time_lst
    /\ last' = last
    /\ ServerEq(tasks[i].server, Server("temp", Localhost))
          => \E k \in DOMAIN req_time_lst' : req_time_lst'[k] = tasks[i].cur_time

C21_FailureOnlyOnTheHandle ==
    [][\A i \in DOMAIN tasks :
          /\ tasks'[i].calls # tasks[i].calls => C21_Call(i)
          /\ tasks[i].pc = "done" => tasks'[i] = tasks[i]]_vars

C21_Witness ==
    \E i \in DOMAIN tasks :
        /\ tasks[i].response = "raise"
        /\ tasks[i].pc = "done"
        /\ tasks[i].calls = 1
        /\ tasks[i].server.serverIP = Localhost
        /\ \E k \in DOMAIN req_time_lst : req_time_lst[k] = tasks[i].cur_time
        /\ Len(serverList) = 3

-----------------------------------------------------------------------------
\* the log of entry i holds what it held when the pass began and n more entries
GrewBy(i, n) ==
    LET log == serverList[i].availability
        old == inflight.probe.before[i].availability
    IN  /\ Len(log) = Len(old) + n
        /\ SubSeq(log, 1, Len(old)) = old

AfterFanIn == inflight.probe.pc = "idle" /\ last.via = "fan-in"

\* C22: in one select_min_ping_server call every registered server is probed
\* exactly once, and the scan starts only after every probe has finished and
\* appended its result, in whatever order the probes finish: while the call
\* waits, a server's log has grown by one entry if its probe has finished and
\* not at all otherwise; when the call has returned, no probe is pending, every
\* log has grown by exactly one entry, and what was returned is what the scan
\* gives on those logs.
C22_ScanAfterEveryProbe ==
    /\ inflight.probe.pc = "wait" =>
          /\ DOMAIN serverList = DOMAIN inflight.probe.before
          /\ \A i \in DOMAIN serverList :
                GrewBy(i, IF i \in inflight.probe.pending THEN 0 ELSE 1)
    /\ AfterFanIn =>
          /\ inflight.probe.pending = {}
          /\ Len(inflight.probe.order) = Len(serverList)
          /\ Range(inflight.probe.order) = DOMAIN serverList
          /\ last.kind # "raise"
          /\ DOMAIN serverList = DOMAIN last.before
          /\ \A i \in DOMAIN serverList : GrewBy(i, 1)
          /\ last.idx = select_min_ping_index(serverList)
          /\ last.kind = (IF last.idx = 0 THEN "None" ELSE "server")

\* the second probe finished first, and the scan returned the first server
C22_Witness ==
    /\ AfterFanIn
    /\ Len(serverList) = 2
    /\ last.kind = "server"
    /\ last.idx = 1
    /\ Len(serverList[1].availability) = 2
    /\ inflight.probe.order = <<2, 1>>
    /\ inflight.probe.answers[2] = PingDelay(10)

-----------------------------------------------------------------------------
\* the probes of the current pass that have finished
Probed == {i \in DOMAIN inflight.probe.answers : inflight.probe.answers[i] # NoAnswer}

\* C23: each probe appends exactly one result to the log of the probed server and
\* changes no earlier entry; an unknown host (False) and a timeout (None) give
\* (available = false, delay = 0), a measurement of d ms gives (available = true,
\* delay = d); so every entry of a log that is not available has delay 0.
C23_ProbeResultShape ==
    /\ \A i \in Probed \ inflight.probe.pending :
          LET response == inflight.probe.answers[i]
              entry == Latest(serverList[i])
          IN  /\ GrewBy(i, 1)
              /\ IF response.kind = "float"
                 THEN entry.available /\ entry.delay.val = response.ms
                 ELSE ~entry.available /\ entry.delay.val = 0
    /\ \A i \in DOMAIN serverList :
          \A k \in DOMAIN serverList[i].availability :
              ~serverList[i].availability[k].available
                  => serverList[i].availability[k].delay.val = 0

-----------------------------------------------------------------------------
AfterChoice == last.op = "submit_task" /\ last.ip = ""

\* the gate was enabled and 127.0.0.1 registered when the call began
GateApplied == engine.consider_throughout /\ contains_ip(last.before, Localhost)

\* C24: when the gate is enabled, the registry contains 127.0.0.1 and the
\* throughput of the window is not above the expected throughput, choose_server
\* returns the loopback server without calling the policy: no server is probed,
\* so the registry, probe logs included, is what it was before the call.
C24_LocalWithoutPolicy ==
    (/\ AfterChoice
     /\ GateApplied
     /\ Qualifying(last.window, last.at) <= engine.expected_throughput)
    => /\ last.via = "local"
       /\ last.kind = "server"
       /\ last.server = [serverName |-> "LocalDevice", serverIP |-> Localhost]
       /\ serverList = last.before

\* under the minimum-ping policy, with remote servers registered and no probe made
C24_Witness ==
    /\ AfterChoice
    /\ last.via = "local"
    /\ engine.decision_func = "select_min_ping_server"
    /\ Len(serverList) = 3
    /\ \A i \in DOMAIN serverList : serverList[i].availability = <<>>
    /\ Len(tasks) = 2
    /\ last.window # <<>>

-----------------------------------------------------------------------------
\* C25: when throughput-awareness is disabled or the registry does not contain
\* 127.0.0.1, what choose_server returns is an outcome of the configured policy
\* on the full registry as it was before the call, whatever the throughput
\* window holds: the same kind of result, the same server, and the registry
\* as the policy leaves it.
C25_PolicyOnFullRegistry ==
    (AfterChoice /\ ~GateApplied)
    => /\ last.via = "policy"
       /\ \E o \in Policy(engine.decision_func, last.before, last.at) :
             /\ o.kind = last.kind
             /\ o.idx = last.idx
             /\ o.servers = serverList
             /\ last.server = (IF o.kind = "server" THEN Ident(o.servers[o.idx])
                               ELSE NoServer)

\* the gate is enabled and the window is above the expected throughput, but the
\* registry does not hold 127.0.0.1
C25_Witness ==
    /\ AfterChoice
    /\ engine.consider_throughout
    /\ ~contains_ip(last.before, Localhost)
    /\ Qualifying(last.window, last.at) > engine.expected_throughput
    /\ last.via = "policy"
    /\ last.kind = "server"

-----------------------------------------------------------------------------
\* C26: whenever cal_throughput performs its binary search the throughput window
\* is sorted ascending, also when workers append timestamps captured earlier
\* between the sort and the search; and the value it then returns is the exact
\* count of the entries newer than cur_time - period.
C26_SortedAtTheSearch ==
    /\ cal.pc = "bisect" => req_time_lst = list_sort(req_time_lst)
    /\ cal.pc = "len" =>
          Len(req_time_lst) - cal.idx = Qualifying(req_time_lst, cal.cur_time)

-----------------------------------------------------------------------------
\* C27: every dispatched request eventually leaves DISPATCHED.  With the workers
\* scheduled fairly and every outbound call returning or failing, every record
\* handed to the pool is eventually executed and its handle resolved with a
\* response or a failure, also when more records are in flight than the pool
\* has workers.
C27_EveryRecordResolved ==
    \A i \in 1..MaxTasks :
        (Len(tasks) >= i)
            ~> (/\ Len(tasks) >= i
                /\ tasks[i].pc = "done"
                /\ tasks[i].calls = 1
                /\ tasks[i].response \in {"response", "raise"})

\* more records than workers were handed to the pool, and all are resolved
C27_Witness ==
    /\ Len(tasks) > engine.max_workers
    /\ \A i \in DOMAIN tasks : tasks[i].pc = "done"
    /\ \E i \in DOMAIN tasks : tasks[i].response = "raise"
    /\ \E i \in DOMAIN tasks : tasks[i].response = "response"

-----------------------------------------------------------------------------
\* the address, port and path of the URL offload_task builds for a record
Target(task) == <<task.server.serverIP, task.port, task.task>>

\* C28: the address returned by a submit without explicit address is the address
\* of a server that was in the registry when the selection was made; the record
\* handed to the pool carries that server with the submitted task and port, and
\* the outbound call of every record goes to exactly its server's address with
\* its port and task.
C28_ChosenAddressIsRegistered ==
    /\ (AfterChoice /\ last.kind = "server") =>
          /\ last.server.serverIP \in Addresses(last.before)
          /\ Len(tasks) = last.queued + 1
          /\ tasks[Len(tasks)].server = last.server
          /\ tasks[Len(tasks)].task = last.task
          /\ tasks[Len(tasks)].port = last.port
    /\ \A i \in DOMAIN tasks :
          IF tasks[i].calls = 0 THEN tasks[i].url = <<>>
          ELSE tasks[i].url = Target(tasks[i])

\* a remote server chosen by the gate was called for the second kind of request
C28_Witness ==
    /\ AfterChoice
    /\ last.kind = "server"
    /\ last.via = "except_localhost"
    /\ last.port = 18000
    /\ tasks[Len(tasks)].url = <<Remote1, 18000, last.task>>
    /\ Len(tasks) = 2
    /\ tasks[1].task = "hello"

-----------------------------------------------------------------------------
\* the delay select_min_ping_server reads for entry i: availability[0].delay
Considered(i) == serverList[i].availability[1].delay

\* C29: select_min_ping_server returns a server only when the delay it considers
\* for that server is strictly below 3000 ms; when no registered server has a
\* considered delay below 3000 ms it returns None.
C29_BelowThreeSeconds ==
    (AfterFanIn /\ last.kind # "raise") =>
        /\ last.kind = "server" =>
              /\ Considered(last.idx).float
              /\ Considered(last.idx).val < 3000
        /\ (\A i \in DOMAIN serverList :
                ~Considered(i).float \/ Considered(i).val >= 3000)
              => last.kind = "None"

\* every server answered in exactly 3000 ms and none was returned
C29_Witness ==
    /\ AfterFanIn
    /\ last.kind = "None"
    /\ Len(serverList) = 2
    /\ \A i \in DOMAIN serverList :
          /\ serverList[i].availability[1].available
          /\ Considered(i).val = 3000

=============================================================================
